---- MODULE Spec2Model ----
(***************************************************************************)
(* The github:team:create scaffolder action                                *)
(* (plugins/scaffolder-backend-module-github-team/src/actions/githubTeam.ts)*)
(* as a state machine.  One handler invocation walks through: validation,  *)
(* credential resolution (getOctokitOptionsForOrg), client construction,   *)
(* the create-team call, the membership loop and the five outputs.  Every  *)
(* await of the handler is a pair of actions: the call being issued and    *)
(* the remote side answering (resolving or rejecting).                     *)
(***************************************************************************)
EXTENDS Naturals, Sequences, FiniteSets, TLC

VARIABLES
    integrationConfigured, \* options.integrations has a config for github.com
    providerConfigured,    \* options.githubCredentialsProvider was passed
    input,                 \* ctx.input of each invocation
    pc,                    \* position of each invocation in the handler
    byHostCalls,           \* number of integrations.github.byHost lookups
    credCalls,             \* getCredentials calls made, in order
    credReplies,           \* what the provider answered to each of them
    octokit,               \* the Octokit client the invocation constructed
    createCalls,           \* octokit.rest.teams.create calls made, in order
    createReplies,         \* what the remote side answered to each of them
    team,                  \* teamResponse.data
    memberIdx,             \* position of the for..of loop in input.members
    memberCalls,           \* addOrUpdateMembershipForUserInOrg calls, in order
    memberReplies,         \* what the remote side answered to each of them
    memberResults,         \* the accumulators { added, failed }
    emitted,               \* values passed to ctx.output, by field
    outputOrder,           \* names passed to ctx.output, in call order
    thrown                 \* the error the handler rejected with

configVars == <<integrationConfigured, providerConfigured, input>>
credVars == <<byHostCalls, credCalls, credReplies, octokit>>
teamVars == <<createCalls, createReplies, team>>
memberVars == <<memberIdx, memberCalls, memberReplies, memberResults>>
outputVars == <<emitted, outputOrder>>

vars == <<configVars, pc, credVars, teamVars, memberVars, outputVars, thrown>>

----------------------------------------------------------------------------
(* Bounds of the model *)

MaxMembers == 2

----------------------------------------------------------------------------
(* Values *)

\* A JavaScript value that is undefined (an optional field left out).
Undefined == "<undefined>"

Invocations == {"inv1", "inv2"}

Host == "github.com"
ApiBaseUrl == "https://api.github.com"
TeamName == "Test Team"
ProviderToken == "ghs-installation-token"

Organizations == {Undefined, "", "test-org", "r&d"}
Tokens == {Undefined, "", "user-provided-token"}
\* privacy is left out: no property below reads the privacy of the request.
Privacies == {Undefined}
Usernames == {"user1", "user2"}
Roles == {Undefined, "member", "maintainer"}

MemberSpecs == [username : Usernames, role : Roles]

RECURSIVE SeqsUpTo(_, _)
SeqsUpTo(S, n) ==
    IF n = 0 THEN {<<>>}
    ELSE LET shorter == SeqsUpTo(S, n - 1)
         IN  shorter \cup {Append(s, x) : s \in {t \in shorter : Len(t) = n - 1}, x \in S}

MemberLists == SeqsUpTo(MemberSpecs, MaxMembers)

\* ctx.input: members is either left out (membersGiven = FALSE) or an array.
Inputs ==
    { r \in [organization : Organizations, teamName : {TeamName},
             privacy : Privacies, token : Tokens,
             membersGiven : BOOLEAN, members : MemberLists] :
        ~r.membersGiven => r.members = <<>> }

\* A thrown value: an Error instance with its message, or any other value
\* (a string, a plain object) with the text it carries.
ErrorOf(msg) == [isError |-> TRUE, message |-> msg]
NonError(text) == [isError |-> FALSE, message |-> text]

\* What a remote call or the credentials provider may reject with.
ThrownValues == {ErrorOf("User not found"), ErrorOf(""), NonError("rejected")}

\* What getCredentials may resolve to: { token } with a token, an empty one
\* or none.
CredentialReplies == {ProviderToken, "", Undefined}

\* What teams.create may resolve to (teamResponse.data).
TeamRecords ==
    { [created |-> TRUE, id |-> 12345, name |-> TeamName, slug |-> "test-team",
       html_url |-> "https://github.com/orgs/test-org/teams/test-team"],
      [created |-> TRUE, id |-> 67890, name |-> TeamName, slug |-> "test-team-1",
       html_url |-> "https://github.com/orgs/test-org/teams/test-team-1"] }

NoTeam == [created |-> FALSE, id |-> 0, name |-> Undefined, slug |-> Undefined,
           html_url |-> Undefined]
NoClient == [constructed |-> FALSE, auth |-> Undefined, baseUrl |-> Undefined]
NoError == [raised |-> FALSE, message |-> Undefined]
NoOutput == [teamId |-> 0, teamUrl |-> Undefined, teamSlug |-> Undefined,
             membersAdded |-> <<>>, membersFailed |-> <<>>]
NoResults == [added |-> <<>>, failed |-> <<>>]
NoInput == [organization |-> Undefined, teamName |-> TeamName,
            privacy |-> Undefined, token |-> Undefined,
            membersGiven |-> FALSE, members |-> <<>>]

----------------------------------------------------------------------------
(* Pure helpers of the handler *)

\* JavaScript truthiness of an optional string: `if (x)`, `!x`.
Truthy(s) == s # Undefined /\ s # ""

\* `v || d`
OrDefault(v, d) == IF Truthy(v) THEN v ELSE d

\* ErrorMessage without the instanceof test: the text of whatever was thrown.
ErrorMessageOfAnyValue(e) == e.message

\* `error instanceof Error ? error.message : 'Unknown error'`
ErrorMessage(e) == IF e.isError THEN e.message ELSE "Unknown error"

\* encodeURIComponent on the organization names of the model.
EncodeURIComponent(s) ==
    CASE s = "r&d" -> "r%26d"
      [] OTHER -> s

\* `https://${host}/${encodeURIComponent(owner)}`
CredentialsUrl(host, owner) == "https://" \o host \o "/" \o EncodeURIComponent(owner)

----------------------------------------------------------------------------
(* getOctokitOptionsForOrg, cut at its one await *)

ResolverThrows(e) == [kind |-> "throw", error |-> e, auth |-> Undefined, url |-> Undefined]
ResolverReturns(tok) == [kind |-> "options", error |-> ErrorOf(""), auth |-> tok, url |-> Undefined]
ResolverAwaits(u) == [kind |-> "getCredentials", error |-> ErrorOf(""), auth |-> Undefined, url |-> u]

\* ResolverBeforeAwait without the explicit-token branch (lines 31-39).
ResolverBeforeAwaitTokenIgnored(configured, token, host, owner) ==
    IF ~configured
    THEN ResolverThrows(ErrorOf("No integration for host " \o host))
    ELSE IF ~Truthy(owner)
    THEN ResolverThrows(ErrorOf("No organization/owner provided, which is required for GitHub App authentication"))
    ELSE ResolverAwaits(CredentialsUrl(host, owner))

\* ResolverBeforeAwait with the explicit token looked at first, before the
\* integration lookup.
ResolverBeforeAwaitTokenFirst(configured, token, host, owner) ==
    IF Truthy(token)
    THEN ResolverReturns(token)
    ELSE IF ~configured
    THEN ResolverThrows(ErrorOf("No integration for host " \o host))
    ELSE IF ~Truthy(owner)
    THEN ResolverThrows(ErrorOf("No organization/owner provided, which is required for GitHub App authentication"))
    ELSE ResolverAwaits(CredentialsUrl(host, owner))

\* integrationConfig.token: the static token an integration may be
\* configured with.
IntegrationToken == "integration-config-token"

\* ResolverBeforeAwait with the fallback of the older github-teams action
\* (githubTeamCreate.ts, line 65): `token || integrationConfig.token`.
ResolverBeforeAwaitConfigFallback(configured, token, host, owner) ==
    IF ~configured
    THEN ResolverThrows(ErrorOf("No integration for host " \o host))
    ELSE IF Truthy(OrDefault(token, IntegrationToken))
    THEN ResolverReturns(OrDefault(token, IntegrationToken))
    ELSE IF ~Truthy(owner)
    THEN ResolverThrows(ErrorOf("No organization/owner provided, which is required for GitHub App authentication"))
    ELSE ResolverAwaits(CredentialsUrl(host, owner))

\* Up to the call of getCredentials: the integration lookup, the explicit
\* token, the owner check.
ResolverBeforeAwait(configured, token, host, owner) ==
    IF ~configured
    THEN ResolverThrows(ErrorOf("No integration for host " \o host))
    ELSE IF Truthy(token)
    THEN ResolverReturns(token)
    ELSE IF ~Truthy(owner)
    THEN ResolverThrows(ErrorOf("No organization/owner provided, which is required for GitHub App authentication"))
    ELSE ResolverAwaits(CredentialsUrl(host, owner))

\* From the answer of getCredentials on.
ResolverAfterAwait(credentialProviderToken, host, owner) ==
    IF ~Truthy(credentialProviderToken)
    THEN ResolverThrows(ErrorOf("No token available for host: " \o host \o ", with owner "
                                \o owner
                                \o ". Make sure GitHub App is installed on the organization."))
    ELSE ResolverReturns(credentialProviderToken)

\* The handler's catch around getOctokitOptionsForOrg.
AuthenticationError(organization, e) ==
    ErrorOf("Failed to authenticate with GitHub for organization '" \o organization
            \o "': " \o ErrorMessage(e))

\* The handler's outer catch.
TeamCreationError(e) == ErrorOf("GitHub team creation failed: " \o ErrorMessage(e))

\* new Octokit({ ...octokitOptions, log })
NewOctokit(auth) == [constructed |-> TRUE, auth |-> auth, baseUrl |-> ApiBaseUrl]

\* The handler rejects with e.
Throw(i, e) ==
    /\ thrown' = [thrown EXCEPT ![i] = [raised |-> TRUE, message |-> e.message]]
    /\ pc' = [pc EXCEPT ![i] = "thrown"]

----------------------------------------------------------------------------
(* State after construction *)

InitShared ==
    /\ integrationConfigured \in BOOLEAN
    /\ providerConfigured \in BOOLEAN
    /\ byHostCalls = [i \in Invocations |-> 0]
    /\ credCalls = [i \in Invocations |-> <<>>]
    /\ credReplies = [i \in Invocations |-> <<>>]
    /\ octokit = [i \in Invocations |-> NoClient]
    /\ createCalls = [i \in Invocations |-> <<>>]
    /\ createReplies = [i \in Invocations |-> <<>>]
    /\ team = [i \in Invocations |-> NoTeam]
    /\ memberIdx = [i \in Invocations |-> 0]
    /\ memberCalls = [i \in Invocations |-> <<>>]
    /\ memberReplies = [i \in Invocations |-> <<>>]
    /\ memberResults = [i \in Invocations |-> NoResults]
    /\ emitted = [i \in Invocations |-> NoOutput]
    /\ outputOrder = [i \in Invocations |-> <<>>]
    /\ thrown = [i \in Invocations |-> NoError]

\* One invocation of the handler, with any input.
Init ==
    /\ InitShared
    /\ \E in \in Inputs : input = [i \in Invocations |-> IF i = "inv1" THEN in ELSE NoInput]
    /\ pc = [i \in Invocations |-> IF i = "inv1" THEN "start" ELSE "unused"]

----------------------------------------------------------------------------
(* The handler, step by step *)

\* Validate without the organization check (lines 134-136).
ValidateWithoutCheck(i) ==
    /\ pc[i] = "start"
    /\ pc' = [pc EXCEPT ![i] = "resolve"]
    /\ UNCHANGED <<configVars, credVars, teamVars, memberVars, outputVars, thrown>>

\* Lines 129-136: the first log line and the organization check.
Validate(i) ==
    /\ pc[i] = "start"
    /\ IF ~Truthy(input[i].organization)
       THEN Throw(i, ErrorOf("Organization name is required but was not provided"))
       ELSE /\ pc' = [pc EXCEPT ![i] = "resolve"]
            /\ UNCHANGED thrown
    /\ UNCHANGED <<configVars, credVars, teamVars, memberVars, outputVars>>

\* Lines 148-167 with getOctokitOptionsForOrg up to its await: either it
\* throws (caught and wrapped), or it returns the options for the explicit
\* token and the client is built, or getCredentials is called.
ResolveCredentials(i) ==
    /\ pc[i] = "resolve"
    /\ byHostCalls' = [byHostCalls EXCEPT ![i] = @ + 1]
    /\ LET r == ResolverBeforeAwait(integrationConfigured, input[i].token, Host,
                                    input[i].organization)
       IN  CASE r.kind = "throw" ->
                  /\ Throw(i, AuthenticationError(input[i].organization, r.error))
                  /\ UNCHANGED <<credCalls, octokit>>
             [] r.kind = "options" ->
                  /\ octokit' = [octokit EXCEPT ![i] = NewOctokit(r.auth)]
                  /\ pc' = [pc EXCEPT ![i] = "create"]
                  /\ UNCHANGED <<credCalls, thrown>>
             [] r.kind = "getCredentials" ->
                  /\ credCalls' = [credCalls EXCEPT ![i] =
                        Append(@, [url |-> r.url,
                                   provider |-> IF providerConfigured
                                                THEN "injected" ELSE "default"])]
                  /\ pc' = [pc EXCEPT ![i] = "awaitCredentials"]
                  /\ UNCHANGED <<octokit, thrown>>
    /\ UNCHANGED <<configVars, credReplies, teamVars, memberVars, outputVars>>

\* getCredentials resolves with { token: reply }; lines 56-67, 157, 164-167.
GetCredentialsResolves(i, reply) ==
    /\ pc[i] = "awaitCredentials"
    /\ credReplies' = [credReplies EXCEPT ![i] =
          Append(@, [ok |-> TRUE, token |-> reply, error |-> ErrorOf("")])]
    /\ LET r == ResolverAfterAwait(reply, Host, input[i].organization)
       IN  IF r.kind = "throw"
           THEN /\ Throw(i, AuthenticationError(input[i].organization, r.error))
                /\ UNCHANGED octokit
           ELSE /\ octokit' = [octokit EXCEPT ![i] = NewOctokit(r.auth)]
                /\ pc' = [pc EXCEPT ![i] = "create"]
                /\ UNCHANGED thrown
    /\ UNCHANGED <<configVars, byHostCalls, credCalls, teamVars, memberVars, outputVars>>

\* GetCredentialsRejects without the catch of lines 158-161: the provider's
\* exception reaches the caller as it is.
GetCredentialsRejectsRethrown(i, e) ==
    /\ pc[i] = "awaitCredentials"
    /\ credReplies' = [credReplies EXCEPT ![i] =
          Append(@, [ok |-> FALSE, token |-> Undefined, error |-> e])]
    /\ Throw(i, e)
    /\ UNCHANGED <<configVars, byHostCalls, credCalls, octokit, teamVars, memberVars,
                   outputVars>>

\* getCredentials rejects with e; lines 158-161.
GetCredentialsRejects(i, e) ==
    /\ pc[i] = "awaitCredentials"
    /\ credReplies' = [credReplies EXCEPT ![i] =
          Append(@, [ok |-> FALSE, token |-> Undefined, error |-> e])]
    /\ Throw(i, AuthenticationError(input[i].organization, e))
    /\ UNCHANGED <<configVars, byHostCalls, credCalls, octokit, teamVars, memberVars,
                   outputVars>>

\* Lines 171-177: the request of octokit.rest.teams.create.
CreateTeamRequest(in) ==
    [org |-> in.organization, name |-> in.teamName,
     privacy |-> OrDefault(in.privacy, "closed")]

CreateTeam(i) ==
    /\ pc[i] = "create"
    /\ createCalls' = [createCalls EXCEPT ![i] = Append(@, CreateTeamRequest(input[i]))]
    /\ pc' = [pc EXCEPT ![i] = "awaitCreate"]
    /\ UNCHANGED <<configVars, credVars, createReplies, team, memberVars,
                   outputVars, thrown>>

\* `input.members && input.members.length > 0`
HasMembers(in) == in.membersGiven /\ Len(in.members) > 0

\* teams.create resolves with the team t; lines 179-189: the accumulators
\* are created and the loop is entered when there are members.
CreateTeamResolves(i, t) ==
    /\ pc[i] = "awaitCreate"
    /\ createReplies' = [createReplies EXCEPT ![i] =
          Append(@, [ok |-> TRUE, error |-> ErrorOf("")])]
    /\ team' = [team EXCEPT ![i] = t]
    /\ memberResults' = [memberResults EXCEPT ![i] = NoResults]
    /\ IF HasMembers(input[i])
       THEN /\ memberIdx' = [memberIdx EXCEPT ![i] = 1]
            /\ pc' = [pc EXCEPT ![i] = "members"]
       ELSE /\ pc' = [pc EXCEPT ![i] = "output"]
            /\ UNCHANGED memberIdx
    /\ UNCHANGED <<configVars, credVars, createCalls, memberCalls, memberReplies,
                   outputVars, thrown>>

\* CreateTeamRejects with the rejection swallowed: the handler goes on as
\* if the team existed.
CreateTeamRejectsSwallowed(i, e) ==
    /\ pc[i] = "awaitCreate"
    /\ createReplies' = [createReplies EXCEPT ![i] =
          Append(@, [ok |-> FALSE, error |-> e])]
    /\ IF HasMembers(input[i])
       THEN /\ memberIdx' = [memberIdx EXCEPT ![i] = 1]
            /\ pc' = [pc EXCEPT ![i] = "members"]
       ELSE /\ pc' = [pc EXCEPT ![i] = "output"]
            /\ UNCHANGED memberIdx
    /\ UNCHANGED <<configVars, credVars, createCalls, team, memberCalls,
                   memberReplies, memberResults, outputVars, thrown>>

\* teams.create rejects with e; the outer catch, lines 232-235.
CreateTeamRejects(i, e) ==
    /\ pc[i] = "awaitCreate"
    /\ createReplies' = [createReplies EXCEPT ![i] =
          Append(@, [ok |-> FALSE, error |-> e])]
    /\ Throw(i, TeamCreationError(e))
    /\ UNCHANGED <<configVars, credVars, createCalls, team, memberVars, outputVars>>

\* `member.role || 'member'`
ResolvedRole(member) == OrDefault(member.role, "member")

\* MembershipRequest with the team addressed by the name of the request.
MembershipRequestByName(in, t, member) ==
    [org |-> in.organization, team_slug |-> in.teamName,
     username |-> member.username, role |-> ResolvedRole(member)]

\* Lines 192-197: the request of addOrUpdateMembershipForUserInOrg.
MembershipRequest(in, t, member) ==
    [org |-> in.organization, team_slug |-> t.slug,
     username |-> member.username, role |-> ResolvedRole(member)]

\* AddedEntry with the role as given, not defaulted.
AddedEntryRawRole(member) == [username |-> member.username, role |-> member.role]

\* Lines 198-201.
AddedEntry(member) == [username |-> member.username, role |-> ResolvedRole(member)]

\* FailedEntry with `e.message || 'Unknown error'` for the text.
FailedEntryMessageOrUnknown(member, e) ==
    [username |-> member.username, role |-> ResolvedRole(member),
     error |-> OrDefault(e.message, "Unknown error")]

\* Lines 204-208.
FailedEntry(member, e) ==
    [username |-> member.username, role |-> ResolvedRole(member),
     error |-> ErrorMessage(e)]

\* The for..of loop moves on to the next member, or ends.
NextMember(i) ==
    IF memberIdx[i] < Len(input[i].members)
    THEN /\ memberIdx' = [memberIdx EXCEPT ![i] = @ + 1]
         /\ pc' = [pc EXCEPT ![i] = "members"]
    ELSE /\ pc' = [pc EXCEPT ![i] = "output"]
         /\ UNCHANGED memberIdx

\* AddMember with the calls for all remaining members issued at once, as a
\* Promise.all over the members would.
AddMemberParallel(i) ==
    /\ pc[i] = "members"
    /\ memberCalls' = [memberCalls EXCEPT ![i] =
          @ \o [q \in 1..(Len(input[i].members) - memberIdx[i] + 1) |->
                   MembershipRequest(input[i], team[i],
                                     input[i].members[memberIdx[i] + q - 1])]]
    /\ pc' = [pc EXCEPT ![i] = "awaitMember"]
    /\ UNCHANGED <<configVars, credVars, teamVars, memberIdx, memberReplies,
                   memberResults, outputVars, thrown>>

\* Lines 190-197: the membership call for the member the loop is at.
AddMember(i) ==
    /\ pc[i] = "members"
    /\ memberCalls' = [memberCalls EXCEPT ![i] =
          Append(@, MembershipRequest(input[i], team[i], input[i].members[memberIdx[i]]))]
    /\ pc' = [pc EXCEPT ![i] = "awaitMember"]
    /\ UNCHANGED <<configVars, credVars, teamVars, memberIdx, memberReplies,
                   memberResults, outputVars, thrown>>

\* AddMemberResolves with one accumulator kept on the action instance and
\* shared by every invocation of the handler.
AddMemberResolvesShared(i) ==
    /\ pc[i] = "awaitMember"
    /\ memberReplies' = [memberReplies EXCEPT ![i] =
          Append(@, [ok |-> TRUE, error |-> ErrorOf("")])]
    /\ memberResults' = [j \in Invocations |->
          [memberResults[j] EXCEPT !.added =
              Append(@, AddedEntry(input[i].members[memberIdx[i]]))]]
    /\ NextMember(i)
    /\ UNCHANGED <<configVars, credVars, teamVars, memberCalls, outputVars, thrown>>

\* AddMemberResolves with the entry put in front of the accumulator.
AddMemberResolvesUnshift(i) ==
    /\ pc[i] = "awaitMember"
    /\ memberReplies' = [memberReplies EXCEPT ![i] =
          Append(@, [ok |-> TRUE, error |-> ErrorOf("")])]
    /\ memberResults' = [memberResults EXCEPT ![i].added =
          <<AddedEntry(input[i].members[memberIdx[i]])>> \o @]
    /\ NextMember(i)
    /\ UNCHANGED <<configVars, credVars, teamVars, memberCalls, outputVars, thrown>>

\* The membership call resolves; lines 198-202.
AddMemberResolves(i) ==
    /\ pc[i] = "awaitMember"
    /\ memberReplies' = [memberReplies EXCEPT ![i] =
          Append(@, [ok |-> TRUE, error |-> ErrorOf("")])]
    /\ memberResults' = [memberResults EXCEPT ![i].added =
          Append(@, AddedEntry(input[i].members[memberIdx[i]]))]
    /\ NextMember(i)
    /\ UNCHANGED <<configVars, credVars, teamVars, memberCalls, outputVars, thrown>>

\* AddMemberRejects that only logs the failure, as the older
\* github-teams action does (githubTeamCreate.ts, lines 101-104).
AddMemberRejectsLogOnly(i, e) ==
    /\ pc[i] = "awaitMember"
    /\ memberReplies' = [memberReplies EXCEPT ![i] =
          Append(@, [ok |-> FALSE, error |-> e])]
    /\ NextMember(i)
    /\ UNCHANGED <<configVars, credVars, teamVars, memberCalls, memberResults,
                   outputVars, thrown>>

\* AddMemberRejects without the inner try/catch: the rejection reaches the
\* outer catch.
AddMemberRejectsUncaught(i, e) ==
    /\ pc[i] = "awaitMember"
    /\ memberReplies' = [memberReplies EXCEPT ![i] =
          Append(@, [ok |-> FALSE, error |-> e])]
    /\ Throw(i, TeamCreationError(e))
    /\ UNCHANGED <<configVars, credVars, teamVars, memberIdx, memberCalls,
                   memberResults, outputVars>>

\* AddMemberRejects that tries the same member again instead of recording
\* the failure.
AddMemberRejectsRetry(i, e) ==
    /\ pc[i] = "awaitMember"
    /\ memberReplies' = [memberReplies EXCEPT ![i] =
          Append(@, [ok |-> FALSE, error |-> e])]
    /\ pc' = [pc EXCEPT ![i] = "members"]
    /\ UNCHANGED <<configVars, credVars, teamVars, memberIdx, memberCalls,
                   memberResults, outputVars, thrown>>

\* The membership call rejects with e; the inner catch, lines 203-211.
AddMemberRejects(i, e) ==
    /\ pc[i] = "awaitMember"
    /\ memberReplies' = [memberReplies EXCEPT ![i] =
          Append(@, [ok |-> FALSE, error |-> e])]
    /\ memberResults' = [memberResults EXCEPT ![i].failed =
          Append(@, FailedEntry(input[i].members[memberIdx[i]], e))]
    /\ NextMember(i)
    /\ UNCHANGED <<configVars, credVars, teamVars, memberCalls, outputVars, thrown>>

\* Lines 223-228: the names given to ctx.output, in call order.
OutputNames == <<"teamId", "teamUrl", "teamSlug", "membersAdded", "membersFailed">>

\* SetOutputs that leaves out a result list when it is empty.
SetOutputsOmitEmpty(i) ==
    /\ pc[i] = "output"
    /\ emitted' = [emitted EXCEPT ![i] =
          [teamId |-> team[i].id, teamUrl |-> team[i].html_url,
           teamSlug |-> team[i].slug,
           membersAdded |-> memberResults[i].added,
           membersFailed |-> memberResults[i].failed]]
    /\ outputOrder' = [outputOrder EXCEPT ![i] =
          @ \o <<"teamId", "teamUrl", "teamSlug">>
            \o (IF memberResults[i].added # <<>> THEN <<"membersAdded">> ELSE <<>>)
            \o (IF memberResults[i].failed # <<>> THEN <<"membersFailed">> ELSE <<>>)]
    /\ pc' = [pc EXCEPT ![i] = "done"]
    /\ UNCHANGED <<configVars, credVars, teamVars, memberVars, thrown>>

\* SetOutputs with the result lists emitted before the team fields.
SetOutputsListsFirst(i) ==
    /\ pc[i] = "output"
    /\ emitted' = [emitted EXCEPT ![i] =
          [teamId |-> team[i].id, teamUrl |-> team[i].html_url,
           teamSlug |-> team[i].slug,
           membersAdded |-> memberResults[i].added,
           membersFailed |-> memberResults[i].failed]]
    /\ outputOrder' = [outputOrder EXCEPT ![i] =
          @ \o <<"membersAdded", "membersFailed", "teamId", "teamUrl", "teamSlug">>]
    /\ pc' = [pc EXCEPT ![i] = "done"]
    /\ UNCHANGED <<configVars, credVars, teamVars, memberVars, thrown>>

\* Lines 223-230: the five outputs; the handler returns.
SetOutputs(i) ==
    /\ pc[i] = "output"
    /\ emitted' = [emitted EXCEPT ![i] =
          [teamId |-> team[i].id, teamUrl |-> team[i].html_url,
           teamSlug |-> team[i].slug,
           membersAdded |-> memberResults[i].added,
           membersFailed |-> memberResults[i].failed]]
    /\ outputOrder' = [outputOrder EXCEPT ![i] = @ \o OutputNames]
    /\ pc' = [pc EXCEPT ![i] = "done"]
    /\ UNCHANGED <<configVars, credVars, teamVars, memberVars, thrown>>

Next ==
    \E i \in Invocations :
        \/ Validate(i)
        \/ ResolveCredentials(i)
        \/ \E reply \in CredentialReplies : GetCredentialsResolves(i, reply)
        \/ \E e \in ThrownValues : GetCredentialsRejects(i, e)
        \/ CreateTeam(i)
        \/ \E t \in TeamRecords : CreateTeamResolves(i, t)
        \/ \E e \in ThrownValues : CreateTeamRejects(i, e)
        \/ AddMember(i)
        \/ AddMemberResolves(i)
        \/ \E e \in ThrownValues : AddMemberRejects(i, e)
        \/ SetOutputs(i)

Spec == Init /\ [][Next]_vars

----------------------------------------------------------------------------
(* The handler with a logger whose calls may throw.  No ctx.logger call of *)
(* the handler is guarded: one that throws outside the try blocks rejects  *)
(* the handler, one that throws inside a try block lands in its catch.     *)
(* `again` says that the log call of that catch throws as well.            *)

\* What a call of ctx.logger.info/warn/error may throw.
LoggerThrownValues == {ErrorOf("logger unavailable")}

\* The catch of lines 158-161 entered with e: its logger.error throws
\* (again), or the wrapped error is thrown.
AuthenticationCatch(i, e, again) ==
    IF again THEN Throw(i, e) ELSE Throw(i, AuthenticationError(input[i].organization, e))

\* The outer catch of lines 232-235 entered with e: its logger.error throws
\* (again), or the wrapped error is thrown.
OuterCatch(i, e, again) ==
    IF again THEN Throw(i, e) ELSE Throw(i, TeamCreationError(e))

\* Line 131, or lines 138-146 once the organization check has passed: the
\* logger's exception rejects the handler as it is.
LogThrowsBeforeTry(i, e) ==
    /\ pc[i] = "start"
    /\ Throw(i, e)
    /\ UNCHANGED <<configVars, credVars, teamVars, memberVars, outputVars>>

\* ResolveCredentials with a throwing log call: line 159 when the resolver
\* threw, line 157 when it returned the options for the explicit token.
ResolveCredentialsLogThrows(i, e, again) ==
    /\ pc[i] = "resolve"
    /\ byHostCalls' = [byHostCalls EXCEPT ![i] = @ + 1]
    /\ LET r == ResolverBeforeAwait(integrationConfigured, input[i].token, Host,
                                    input[i].organization)
       IN  CASE r.kind = "throw" -> Throw(i, e)
             [] r.kind = "options" -> AuthenticationCatch(i, e, again)
             [] r.kind = "getCredentials" -> FALSE
    /\ UNCHANGED <<configVars, credCalls, credReplies, octokit, teamVars, memberVars,
                   outputVars>>

\* GetCredentialsResolves with a throwing log call: line 159 when no usable
\* token came back, line 157 otherwise.
GetCredentialsResolvesLogThrows(i, reply, e, again) ==
    /\ pc[i] = "awaitCredentials"
    /\ credReplies' = [credReplies EXCEPT ![i] =
          Append(@, [ok |-> TRUE, token |-> reply, error |-> ErrorOf("")])]
    /\ LET r == ResolverAfterAwait(reply, Host, input[i].organization)
       IN  IF r.kind = "throw" THEN Throw(i, e) ELSE AuthenticationCatch(i, e, again)
    /\ UNCHANGED <<configVars, byHostCalls, credCalls, octokit, teamVars, memberVars,
                   outputVars>>

\* GetCredentialsRejects with line 159 throwing.
GetCredentialsRejectsLogThrows(i, rejection, e) ==
    /\ pc[i] = "awaitCredentials"
    /\ credReplies' = [credReplies EXCEPT ![i] =
          Append(@, [ok |-> FALSE, token |-> Undefined, error |-> rejection])]
    /\ Throw(i, e)
    /\ UNCHANGED <<configVars, byHostCalls, credCalls, octokit, teamVars, memberVars,
                   outputVars>>

\* Line 171 throws: the outer catch is entered before teams.create is
\* called.
CreateTeamLogThrows(i, e, again) ==
    /\ pc[i] = "create"
    /\ OuterCatch(i, e, again)
    /\ UNCHANGED <<configVars, credVars, teamVars, memberVars, outputVars>>

\* teams.create resolves and line 180 throws: the outer catch is entered
\* with the team created.
CreateTeamResolvesLogThrows(i, t, e, again) ==
    /\ pc[i] = "awaitCreate"
    /\ createReplies' = [createReplies EXCEPT ![i] =
          Append(@, [ok |-> TRUE, error |-> ErrorOf("")])]
    /\ team' = [team EXCEPT ![i] = t]
    /\ OuterCatch(i, e, again)
    /\ UNCHANGED <<configVars, credVars, createCalls, memberVars, outputVars>>

\* CreateTeamRejects with line 233 throwing.
CreateTeamRejectsLogThrows(i, rejection, e) ==
    /\ pc[i] = "awaitCreate"
    /\ createReplies' = [createReplies EXCEPT ![i] =
          Append(@, [ok |-> FALSE, error |-> rejection])]
    /\ Throw(i, e)
    /\ UNCHANGED <<configVars, credVars, createCalls, team, memberVars, outputVars>>

\* The membership call resolves, the member is pushed to added (lines
\* 198-201) and line 202 throws: the inner catch pushes the same member to
\* failed (lines 204-208); when line 209 throws as well the outer catch is
\* entered, else the loop goes on.
AddMemberResolvesLogThrows(i, e, again) ==
    /\ pc[i] = "awaitMember"
    /\ memberReplies' = [memberReplies EXCEPT ![i] =
          Append(@, [ok |-> TRUE, error |-> ErrorOf("")])]
    /\ memberResults' = [memberResults EXCEPT
          ![i].added = Append(@, AddedEntry(input[i].members[memberIdx[i]])),
          ![i].failed = Append(@, FailedEntry(input[i].members[memberIdx[i]], e))]
    /\ IF again
       THEN /\ Throw(i, TeamCreationError(e))
            /\ UNCHANGED memberIdx
       ELSE /\ NextMember(i)
            /\ UNCHANGED thrown
    /\ UNCHANGED <<configVars, credVars, teamVars, memberCalls, outputVars>>

\* AddMemberRejects with line 209 throwing: the outer catch is entered.
AddMemberRejectsLogThrows(i, rejection, e, again) ==
    /\ pc[i] = "awaitMember"
    /\ memberReplies' = [memberReplies EXCEPT ![i] =
          Append(@, [ok |-> FALSE, error |-> rejection])]
    /\ memberResults' = [memberResults EXCEPT ![i].failed =
          Append(@, FailedEntry(input[i].members[memberIdx[i]], rejection))]
    /\ OuterCatch(i, e, again)
    /\ UNCHANGED <<configVars, credVars, teamVars, memberIdx, memberCalls, outputVars>>

\* Line 216 or line 219, the summary of a request with members, throws:
\* the outer catch is entered before any output.
SummaryLogThrows(i, e, again) ==
    /\ pc[i] = "output"
    /\ HasMembers(input[i])
    /\ OuterCatch(i, e, again)
    /\ UNCHANGED <<configVars, credVars, teamVars, memberVars, outputVars>>

\* Line 230 throws: the five outputs are emitted and the outer catch is
\* entered.
CompletionLogThrows(i, e, again) ==
    /\ pc[i] = "output"
    /\ emitted' = [emitted EXCEPT ![i] =
          [teamId |-> team[i].id, teamUrl |-> team[i].html_url,
           teamSlug |-> team[i].slug,
           membersAdded |-> memberResults[i].added,
           membersFailed |-> memberResults[i].failed]]
    /\ outputOrder' = [outputOrder EXCEPT ![i] = @ \o OutputNames]
    /\ OuterCatch(i, e, again)
    /\ UNCHANGED <<configVars, credVars, teamVars, memberVars>>

LogThrows(i, e) ==
    \/ LogThrowsBeforeTry(i, e)
    \/ \E again \in BOOLEAN : ResolveCredentialsLogThrows(i, e, again)
    \/ \E reply \in CredentialReplies, again \in BOOLEAN :
          GetCredentialsResolvesLogThrows(i, reply, e, again)
    \/ \E rejection \in ThrownValues : GetCredentialsRejectsLogThrows(i, rejection, e)
    \/ \E again \in BOOLEAN : CreateTeamLogThrows(i, e, again)
    \/ \E t \in TeamRecords, again \in BOOLEAN : CreateTeamResolvesLogThrows(i, t, e, again)
    \/ \E rejection \in ThrownValues : CreateTeamRejectsLogThrows(i, rejection, e)
    \/ \E again \in BOOLEAN : AddMemberResolvesLogThrows(i, e, again)
    \/ \E rejection \in ThrownValues, again \in BOOLEAN :
          AddMemberRejectsLogThrows(i, rejection, e, again)
    \/ \E again \in BOOLEAN : SummaryLogThrows(i, e, again)
    \/ \E again \in BOOLEAN : CompletionLogThrows(i, e, again)

NextLog == Next \/ \E i \in Invocations, e \in LoggerThrownValues : LogThrows(i, e)

\* One invocation, every log call of which may throw.
SpecLog == Init /\ [][NextLog]_vars

\* The handler's scheduling: the runtime runs the handler's next statement,
\* and every remote call it awaits settles (resolves or rejects), so an
\* invocation that can take a step eventually takes one.
SpecFair == Spec /\ WF_vars(Next)
SpecLogFair == SpecLog /\ WF_vars(NextLog)

----------------------------------------------------------------------------
(* Two invocations of the handler on one action instance *)

\* The requests of two templates run at the same time: each names an
\* organization, has an explicit token or none, and no member or one.
ConcurrentInputs(org, username) ==
    { r \in Inputs :
        /\ r.organization = org
        /\ r.token \in {Undefined, "user-provided-token"}
        /\ r.membersGiven
        /\ r.members \in {<<>>, <<[username |-> username, role |-> Undefined]>>} }

\* createGithubTeamCreateAction is called once (lines 70-74) and the handler
\* it returns is called twice; the two calls take their steps in any order.
InitTwo ==
    /\ InitShared
    /\ \E in1 \in ConcurrentInputs("test-org", "user1"),
          in2 \in ConcurrentInputs("r&d", "user2") :
          input = [i \in Invocations |-> IF i = "inv1" THEN in1 ELSE in2]
    /\ pc = [i \in Invocations |-> "start"]

SpecTwo == InitTwo /\ [][Next]_vars

----------------------------------------------------------------------------
(* Vocabulary of the properties *)

\* The members of the request: none when the field is left out.
MembersOf(i) == input[i].members

\* The role a member is to get: its own, or "member".
ExpectedRole(member) == IF member.role \in {"member", "maintainer"} THEN member.role ELSE "member"

\* The (username, role) pairs a member list or a result list can hold.
Pairs == [username : Usernames, role : {"member", "maintainer"}]

PairOf(entry) == [username |-> entry.username, role |-> entry.role]
ExpectedPair(member) == [username |-> member.username, role |-> ExpectedRole(member)]

\* How often the pair p occurs among the first k members of the request.
RequestedCount(i, k, p) == Cardinality({q \in 1..k : ExpectedPair(MembersOf(i)[q]) = p})

\* How often the pair p occurs in a result list.
ReportedCount(list, p) == Cardinality({q \in 1..Len(list) : PairOf(list[q]) = p})

\* The members the loop has finished with.
Processed(i) == Len(memberReplies[i])

\* The positions among the first k whose membership call resolved (ok) or
\* rejected (~ok), in increasing order.
RECURSIVE PositionsWhere(_, _, _)
PositionsWhere(i, k, ok) ==
    IF k = 0 THEN <<>>
    ELSE IF memberReplies[i][k].ok = ok
         THEN Append(PositionsWhere(i, k - 1, ok), k)
         ELSE PositionsWhere(i, k - 1, ok)

Finished(i) == pc[i] = "done"
Failed(i) == pc[i] = "thrown"
CreateRejected(i) == createReplies[i] # <<>> /\ ~createReplies[i][1].ok
AllOutputsEmitted(i) == outputOrder[i] = OutputNames

----------------------------------------------------------------------------
(* The properties *)

\* C1: once the team is created, after k members have been processed the
\* two accumulators together hold exactly k entries, and each of the first k
\* input members, repeated usernames included, is in exactly one of them
\* (as many entries as input positions); at the end k is the length of the
\* member list and the reported lists are these accumulators.
C1_ResultsPartitionMembers ==
    \A i \in Invocations :
        team[i].created =>
            LET k == Processed(i)
                added == memberResults[i].added
                failed == memberResults[i].failed
            IN  /\ k <= Len(MembersOf(i))
                /\ Len(added) + Len(failed) = k
                /\ \A p \in Pairs :
                      ReportedCount(added, p) + ReportedCount(failed, p)
                          = RequestedCount(i, k, p)
                /\ pc[i] \in {"output", "done"} => k = Len(MembersOf(i))
                /\ Finished(i) =>
                      /\ emitted[i].membersAdded = added
                      /\ emitted[i].membersFailed = failed
                      /\ Len(emitted[i].membersAdded) + Len(emitted[i].membersFailed)
                            = Len(MembersOf(i))

\* C1 witness: the same member is given twice, one grant succeeds and the
\* other fails, and the results are reported.
C1_Witness ==
    /\ Finished("inv1")
    /\ Len(MembersOf("inv1")) = 2
    /\ MembersOf("inv1")[1] = MembersOf("inv1")[2]
    /\ Len(emitted["inv1"].membersAdded) = 1
    /\ Len(emitted["inv1"].membersFailed) = 1

\* C2: membersAdded is the subsequence of the input members whose
\* membership call succeeded and membersFailed the subsequence whose call
\* failed, each in input order.
C2_ResultsAreOrderedSubsequences ==
    \A i \in Invocations :
        team[i].created =>
            LET k == Processed(i)
                okAt == PositionsWhere(i, k, TRUE)
                badAt == PositionsWhere(i, k, FALSE)
                added == memberResults[i].added
                failed == memberResults[i].failed
            IN  /\ Len(added) = Len(okAt)
                /\ Len(failed) = Len(badAt)
                /\ \A r \in 1..Len(okAt) :
                      PairOf(added[r]) = ExpectedPair(MembersOf(i)[okAt[r]])
                /\ \A r \in 1..Len(badAt) :
                      PairOf(failed[r]) = ExpectedPair(MembersOf(i)[badAt[r]])
                /\ Finished(i) =>
                      /\ emitted[i].membersAdded = added
                      /\ emitted[i].membersFailed = failed

\* C2 witness: two different members are both added and reported in input
\* order.
C2_Witness ==
    /\ Finished("inv1")
    /\ Len(MembersOf("inv1")) = 2
    /\ MembersOf("inv1")[1].username # MembersOf("inv1")[2].username
    /\ Len(emitted["inv1"].membersAdded) = 2
    /\ emitted["inv1"].membersAdded[1].username = MembersOf("inv1")[1].username

\* C3: once the team is created no membership failure aborts the
\* invocation: nothing is thrown, the loop goes on to every later member,
\* every rejection is recorded in membersFailed, and the invocation ends by
\* emitting its outputs (it can always take its next step until then).
C3_MemberFailuresNeverAbort ==
    \A i \in Invocations :
        team[i].created =>
            /\ ~thrown[i].raised
            /\ ~Failed(i)
            /\ Len(memberResults[i].failed) = Len(PositionsWhere(i, Processed(i), FALSE))
            /\ pc[i] \in {"output", "done"} =>
                  /\ Len(memberCalls[i]) = Len(MembersOf(i))
                  /\ Processed(i) = Len(MembersOf(i))
            /\ Finished(i) =>
                  /\ AllOutputsEmitted(i)
                  /\ emitted[i].membersFailed = memberResults[i].failed
            /\ ~Finished(i) =>
                  \/ ENABLED AddMember(i)
                  \/ ENABLED AddMemberResolves(i)
                  \/ ENABLED SetOutputs(i)

\* C3 witness: every grant of a list of two members fails and the
\* invocation still ends with its outputs.
C3_Witness ==
    /\ Finished("inv1")
    /\ Len(MembersOf("inv1")) = 2
    /\ Len(memberCalls["inv1"]) = 2
    /\ Len(emitted["inv1"].membersFailed) = 2
    /\ ~thrown["inv1"].raised

\* C4: when the create-team call fails the invocation aborts: no
\* membership call, none of the five outputs, and an error for the caller.
C4_CreateFailureAborts ==
    \A i \in Invocations :
        CreateRejected(i) =>
            /\ memberCalls[i] = <<>>
            /\ outputOrder[i] = <<>>
            /\ emitted[i] = NoOutput
            /\ thrown[i].raised
            /\ Failed(i)
            /\ Len(createCalls[i]) = 1

\* C4 witness: the create-team call of a request with members was rejected.
C4_Witness ==
    /\ CreateRejected("inv1")
    /\ Len(MembersOf("inv1")) = 2
    /\ Failed("inv1")

\* The text a thrown value contributes to a wrapped message: an Error's
\* message, "Unknown error" for anything else.
WrappedText(e) == IF e.isError THEN e.message ELSE "Unknown error"

CreationFailedPrefix == "GitHub team creation failed: "
AuthenticationFailedPrefix(org) ==
    "Failed to authenticate with GitHub for organization '" \o org \o "': "
NoTokenText(org) ==
    "No token available for host: github.com, with owner " \o org
        \o ". Make sure GitHub App is installed on the organization."

Emitted(i, name) == \E q \in 1..Len(outputOrder[i]) : outputOrder[i][q] = name

\* No integration lookup, credential call, client or remote call, and no
\* output.
NothingDone(i) ==
    /\ byHostCalls[i] = 0
    /\ credCalls[i] = <<>>
    /\ ~octokit[i].constructed
    /\ createCalls[i] = <<>>
    /\ memberCalls[i] = <<>>
    /\ outputOrder[i] = <<>>

\* C5 as stated: when the create-team call fails, the thrown message is
\* "GitHub team creation failed: " followed by the text of whatever the call
\* failed with.
C5_Original ==
    \A i \in Invocations :
        CreateRejected(i) =>
            /\ thrown[i].raised
            /\ thrown[i].message = CreationFailedPrefix \o createReplies[i][1].error.message

\* C5, amended: when the create-team call fails with an Error, the thrown
\* message is "GitHub team creation failed: " followed by that Error's
\* message verbatim (also when it is empty); when it fails with a value that
\* is not an Error, the message is "GitHub team creation failed: Unknown
\* error".
C5_CreationErrorMessage ==
    \A i \in Invocations :
        CreateRejected(i) =>
            /\ thrown[i].raised
            /\ thrown[i].message = CreationFailedPrefix \o WrappedText(createReplies[i][1].error)

\* C5 witness: the create-team call was rejected with a value that is not an
\* Error and the handler threw the "Unknown error" message.
C5_Witness ==
    /\ CreateRejected("inv1")
    /\ ~createReplies["inv1"][1].error.isError
    /\ thrown["inv1"].message = "GitHub team creation failed: Unknown error"

\* C6: with the organization absent or empty the handler fails with exactly
\* "Organization name is required but was not provided", before any
\* integration lookup, credential call, client construction or remote call,
\* and emits nothing.
C6_MissingOrganizationFailsFirst ==
    \A i \in Invocations :
        (input[i].organization = Undefined \/ input[i].organization = "") =>
            /\ NothingDone(i)
            /\ pc[i] \in {"unused", "start", "thrown"}
            /\ pc[i] = "thrown" =>
                  /\ thrown[i].raised
                  /\ thrown[i].message = "Organization name is required but was not provided"

\* C6 witness: a request with an empty organization, an explicit token and
\* members has been rejected.
C6_Witness ==
    /\ input["inv1"].organization = ""
    /\ input["inv1"].token = "user-provided-token"
    /\ Len(MembersOf("inv1")) = 2
    /\ Failed("inv1")

\* C7: with an explicit (non-empty) token getCredentials is never called,
\* with or without a configured provider, and the client, which exists
\* before any remote call is made, is constructed with exactly that token.
C7_ExplicitTokenBypassesProvider ==
    \A i \in Invocations :
        (input[i].token # Undefined /\ input[i].token # "") =>
            /\ credCalls[i] = <<>>
            /\ credReplies[i] = <<>>
            /\ pc[i] # "awaitCredentials"
            /\ octokit[i].constructed => octokit[i].auth = input[i].token
            /\ (createCalls[i] # <<>> \/ pc[i] = "create") => octokit[i].constructed

\* C7 witness: an invocation with an explicit token and a configured
\* provider has ended with its outputs.
C7_Witness ==
    /\ input["inv1"].token = "user-provided-token"
    /\ providerConfigured
    /\ octokit["inv1"].constructed
    /\ Finished("inv1")

\* C8 as stated: without an explicit token, when getCredentials throws or
\* returns no usable token, the message is the authentication prefix
\* followed by the underlying error text (the text of whatever was thrown, or
\* the text naming host and organization), and no client, create-team or
\* membership call is made.
C8_Original ==
    \A i \in Invocations :
        (credReplies[i] # <<>> /\ (~credReplies[i][1].ok
                                   \/ credReplies[i][1].token \in {Undefined, ""})) =>
            LET r == credReplies[i][1]
                org == input[i].organization
            IN  /\ Failed(i)
                /\ thrown[i].raised
                /\ thrown[i].message =
                      AuthenticationFailedPrefix(org)
                          \o (IF r.ok THEN NoTokenText(org) ELSE r.error.message)
                /\ createCalls[i] = <<>>
                /\ memberCalls[i] = <<>>

\* C8, amended: without an explicit token, when getCredentials throws an
\* Error the message is "Failed to authenticate with GitHub for organization
\* '<org>': " followed by that Error's message, when it throws a value that
\* is not an Error the message ends in "Unknown error", and when it returns
\* no usable token the message ends in the text naming the host and the
\* organization; what the provider threw is never the error surfaced, no
\* client is built and no create-team or membership call is made.
C8_AuthenticationErrorMessage ==
    \A i \in Invocations :
        (credReplies[i] # <<>> /\ (~credReplies[i][1].ok
                                   \/ credReplies[i][1].token \in {Undefined, ""})) =>
            LET r == credReplies[i][1]
                org == input[i].organization
            IN  /\ input[i].token \in {Undefined, ""}
                /\ Failed(i)
                /\ thrown[i].raised
                /\ thrown[i].message =
                      AuthenticationFailedPrefix(org)
                          \o (IF r.ok THEN NoTokenText(org) ELSE WrappedText(r.error))
                /\ ~r.ok => thrown[i].message # r.error.message
                /\ ~octokit[i].constructed
                /\ createCalls[i] = <<>>
                /\ memberCalls[i] = <<>>
                /\ outputOrder[i] = <<>>

\* C8 witness: getCredentials returned no token for the organization and
\* the handler threw the message naming host and organization.
C8_Witness ==
    /\ credReplies["inv1"] # <<>>
    /\ credReplies["inv1"][1].ok
    /\ credReplies["inv1"][1].token = Undefined
    /\ input["inv1"].organization = "test-org"
    /\ thrown["inv1"].message =
          "Failed to authenticate with GitHub for organization 'test-org': No token available for host: github.com, with owner test-org. Make sure GitHub App is installed on the organization."

\* C9: with members left out or empty no membership call is made, the
\* member stage raises no error, and membersAdded and membersFailed are both
\* emitted, empty.
C9_NoMembersNoCalls ==
    \A i \in Invocations :
        (~input[i].membersGiven \/ input[i].members = <<>>) =>
            /\ memberCalls[i] = <<>>
            /\ memberReplies[i] = <<>>
            /\ pc[i] \notin {"members", "awaitMember"}
            /\ team[i].created =>
                  /\ ~thrown[i].raised
                  /\ pc[i] \in {"output", "done"}
            /\ Finished(i) =>
                  /\ Emitted(i, "membersAdded")
                  /\ Emitted(i, "membersFailed")
                  /\ emitted[i].membersAdded = <<>>
                  /\ emitted[i].membersFailed = <<>>

\* C9 witness: a request with an empty member list has ended with its
\* outputs.
C9_Witness ==
    /\ input["inv1"].membersGiven
    /\ input["inv1"].members = <<>>
    /\ Finished("inv1")
    /\ AllOutputsEmitted("inv1")

\* C10: for every member the role sent in the membership call and the role
\* recorded in its result entry are the same value, the member's own role
\* if given and "member" otherwise, whatever the roles of the other members.
C10_RoleSentIsRoleRecorded ==
    \A i \in Invocations :
        LET k == Processed(i)
            okAt == PositionsWhere(i, k, TRUE)
            badAt == PositionsWhere(i, k, FALSE)
        IN  /\ \A q \in 1..Len(memberCalls[i]) :
                  /\ memberCalls[i][q].username = MembersOf(i)[q].username
                  /\ memberCalls[i][q].role = ExpectedRole(MembersOf(i)[q])
            /\ Len(memberResults[i].added) = Len(okAt)
            /\ Len(memberResults[i].failed) = Len(badAt)
            /\ \A r \in 1..Len(okAt) :
                  /\ memberResults[i].added[r].username = memberCalls[i][okAt[r]].username
                  /\ memberResults[i].added[r].role = memberCalls[i][okAt[r]].role
            /\ \A r \in 1..Len(badAt) :
                  /\ memberResults[i].failed[r].username = memberCalls[i][badAt[r]].username
                  /\ memberResults[i].failed[r].role = memberCalls[i][badAt[r]].role

\* C10 witness: a member without a role is added and a maintainer fails;
\* the calls and the reported entries carry "member" and "maintainer".
C10_Witness ==
    /\ Finished("inv1")
    /\ Len(MembersOf("inv1")) = 2
    /\ MembersOf("inv1")[1].role = Undefined
    /\ MembersOf("inv1")[2].role = "maintainer"
    /\ memberCalls["inv1"][1].role = "member"
    /\ memberCalls["inv1"][2].role = "maintainer"
    /\ Len(emitted["inv1"].membersAdded) = 1
    /\ emitted["inv1"].membersAdded[1].role = "member"
    /\ Len(emitted["inv1"].membersFailed) = 1
    /\ emitted["inv1"].membersFailed[1].role = "maintainer"

\* The stage an invocation is in, in the order of the handler's text.
StageRank(p) ==
    CASE p \in {"unused", "start"} -> 0
      [] p \in {"resolve", "awaitCredentials"} -> 1
      [] p \in {"create", "awaitCreate"} -> 2
      [] p \in {"members", "awaitMember"} -> 3
      [] p = "output" -> 4
      [] p \in {"done", "thrown"} -> 5

\* C11, state part: outputs exist only in an invocation that has ended
\* without an error, after the reply to the last membership call; then each
\* of the five fields has been emitted exactly once, in the order teamId,
\* teamUrl, teamSlug, membersAdded, membersFailed, the first three with the
\* values of the create-team response and the lists being the accumulators.
C11_OutputsState ==
    \A i \in Invocations :
        /\ outputOrder[i] # <<>> =>
              /\ Finished(i)
              /\ ~thrown[i].raised
              /\ Len(memberReplies[i]) = Len(memberCalls[i])
              /\ Len(memberCalls[i]) = Len(MembersOf(i))
        /\ Finished(i) =>
              /\ outputOrder[i] =
                    <<"teamId", "teamUrl", "teamSlug", "membersAdded", "membersFailed">>
              /\ team[i].created
              /\ emitted[i].teamId = team[i].id
              /\ emitted[i].teamUrl = team[i].html_url
              /\ emitted[i].teamSlug = team[i].slug
              /\ emitted[i].membersAdded = memberResults[i].added
              /\ emitted[i].membersFailed = memberResults[i].failed

\* C11, step part: once emitted, neither the outputs nor the lists handed
\* to ctx.output change.
C11_OutputsStep ==
    \A i \in Invocations :
        outputOrder[i] # <<>> =>
            /\ outputOrder'[i] = outputOrder[i]
            /\ emitted'[i] = emitted[i]
            /\ memberResults'[i] = memberResults[i]
            /\ team'[i] = team[i]

\* C11: in every invocation that completes successfully each of the five
\* output fields is emitted exactly once, in the fixed order, only after the
\* last membership call has finished, with teamId/teamUrl/teamSlug taken
\* from the create-team response, and nothing emitted changes afterwards.
C11_OutputsOnceInOrder == [](C11_OutputsState) /\ [][C11_OutputsStep]_vars

\* C11 witness: an invocation with two members has ended and its five
\* outputs carry the created team and both result lists.
C11_Witness ==
    /\ Finished("inv1")
    /\ Len(MembersOf("inv1")) = 2
    /\ outputOrder["inv1"] = OutputNames
    /\ emitted["inv1"].teamId = 67890
    /\ emitted["inv1"].teamSlug = "test-team-1"
    /\ Len(emitted["inv1"].membersAdded) = 1
    /\ Len(emitted["inv1"].membersFailed) = 1

\* C13: every membership call of an invocation carries as team_slug the
\* slug of that invocation's create-team response, which differs from the
\* teamName of the request, and the reported teamSlug is that same slug.
C13_SlugFromCreateResponse ==
    \A i \in Invocations :
        /\ \A q \in 1..Len(memberCalls[i]) :
              /\ team[i].created
              /\ createReplies[i][1].ok
              /\ memberCalls[i][q].team_slug = team[i].slug
              /\ memberCalls[i][q].team_slug # input[i].teamName
              /\ memberCalls[i][q].org = input[i].organization
        /\ Finished(i) =>
              /\ emitted[i].teamSlug = team[i].slug
              /\ \A q \in 1..Len(memberCalls[i]) :
                    memberCalls[i][q].team_slug = emitted[i].teamSlug

\* C13 witness: team "Test Team" came back with the slug "test-team-1"; both
\* membership calls and the reported teamSlug carry that slug.
C13_Witness ==
    /\ Finished("inv1")
    /\ input["inv1"].teamName = "Test Team"
    /\ Len(memberCalls["inv1"]) = 2
    /\ memberCalls["inv1"][1].team_slug = "test-team-1"
    /\ memberCalls["inv1"][2].team_slug = "test-team-1"
    /\ emitted["inv1"].teamSlug = "test-team-1"

\* What the caller observes of an invocation that has ended.
OutcomeThrown(msg) ==
    [status |-> "thrown", message |-> msg, order |-> <<>>, values |-> NoOutput]
OutcomeDone(values) ==
    [status |-> "done", message |-> Undefined, order |-> OutputNames, values |-> values]
\* No outcome follows: a remote call whose answer decides it was never made.
OutcomeUndetermined ==
    [status |-> "undetermined", message |-> Undefined, order |-> <<>>, values |-> NoOutput]

ActualOutcome(i) ==
    [status |-> pc[i],
     message |-> IF thrown[i].raised THEN thrown[i].message ELSE Undefined,
     order |-> outputOrder[i],
     values |-> emitted[i]]

\* The result lists that the remote answers to the membership calls call
\* for.
ReferenceAdded(i) ==
    LET okAt == PositionsWhere(i, Processed(i), TRUE)
    IN  [r \in 1..Len(okAt) |-> ExpectedPair(MembersOf(i)[okAt[r]])]
ReferenceFailed(i) ==
    LET badAt == PositionsWhere(i, Processed(i), FALSE)
    IN  [r \in 1..Len(badAt) |->
            [username |-> MembersOf(i)[badAt[r]].username,
             role |-> ExpectedRole(MembersOf(i)[badAt[r]]),
             error |-> WrappedText(memberReplies[i][badAt[r]].error)]]

\* The outcome that the input and the remote answers alone call for, every
\* log call succeeding.
ReferenceOutcome(i) ==
    LET in == input[i]
        org == in.organization
        explicit == in.token # Undefined /\ in.token # ""
        afterCredentials ==
            IF createReplies[i] = <<>> THEN OutcomeUndetermined
            ELSE IF ~createReplies[i][1].ok
            THEN OutcomeThrown(CreationFailedPrefix \o WrappedText(createReplies[i][1].error))
            ELSE IF Processed(i) < Len(in.members) THEN OutcomeUndetermined
            ELSE OutcomeDone([teamId |-> team[i].id, teamUrl |-> team[i].html_url,
                              teamSlug |-> team[i].slug,
                              membersAdded |-> ReferenceAdded(i),
                              membersFailed |-> ReferenceFailed(i)])
    IN  IF org = Undefined \/ org = ""
        THEN OutcomeThrown("Organization name is required but was not provided")
        ELSE IF ~integrationConfigured
        THEN OutcomeThrown(AuthenticationFailedPrefix(org) \o "No integration for host github.com")
        ELSE IF explicit THEN afterCredentials
        ELSE IF credReplies[i] = <<>> THEN OutcomeUndetermined
        ELSE IF ~credReplies[i][1].ok
        THEN OutcomeThrown(AuthenticationFailedPrefix(org) \o WrappedText(credReplies[i][1].error))
        ELSE IF credReplies[i][1].token \in {Undefined, ""}
        THEN OutcomeThrown(AuthenticationFailedPrefix(org) \o NoTokenText(org))
        ELSE afterCredentials

\* C12: a failing log call never affects the outcome: whether log calls
\* succeed or throw, an invocation ends with the error or the outputs that
\* its input and the remote answers call for (each member in the list its
\* own membership call decided).
C12_LoggingNeverAffectsOutcome ==
    \A i \in Invocations :
        pc[i] \in {"done", "thrown"} => ActualOutcome(i) = ReferenceOutcome(i)

\* The positions set above the handler's stages: an invocation at one of
\* these has built its client / has issued its create-team call.
PastResolve == {"create", "awaitCreate", "members", "awaitMember", "output", "done"}
PastCreate == {"awaitCreate", "members", "awaitMember", "output", "done"}

\* C14: two invocations of the handler, interleaved in any way at their
\* awaits, share no state. Each builds its client from its own token or
\* from the answer to its own getCredentials call (made for its own
\* organization), issues its own create-team call, addresses its membership
\* calls to its own team, and accumulates and reports exactly the results of
\* its own members; no credential, client or team is reused from the other.
C14_InvocationsShareNothing ==
    \A i \in Invocations :
        LET in == input[i]
            k == Processed(i)
            okAt == PositionsWhere(i, k, TRUE)
            badAt == PositionsWhere(i, k, FALSE)
        IN  /\ pc[i] \in PastResolve =>
                 /\ octokit[i].constructed
                 /\ IF Truthy(in.token)
                    THEN credCalls[i] = <<>> /\ octokit[i].auth = in.token
                    ELSE /\ Len(credCalls[i]) = 1
                         /\ credCalls[i][1].url = CredentialsUrl(Host, in.organization)
                         /\ Len(credReplies[i]) = 1
                         /\ octokit[i].auth = credReplies[i][1].token
            /\ pc[i] \in PastCreate =>
                 createCalls[i] = <<CreateTeamRequest(in)>>
            /\ \A q \in 1..Len(memberCalls[i]) :
                 memberCalls[i][q] = MembershipRequest(in, team[i], in.members[q])
            /\ memberResults[i].added =
                 [r \in 1..Len(okAt) |-> AddedEntry(in.members[okAt[r]])]
            /\ memberResults[i].failed =
                 [r \in 1..Len(badAt) |->
                     FailedEntry(in.members[badAt[r]], memberReplies[i][badAt[r]].error)]
            /\ Finished(i) =>
                 /\ emitted[i].teamId = team[i].id
                 /\ emitted[i].teamSlug = team[i].slug
                 /\ emitted[i].membersAdded = memberResults[i].added
                 /\ emitted[i].membersFailed = memberResults[i].failed
                 /\ Len(emitted[i].membersAdded) + Len(emitted[i].membersFailed)
                       = Len(in.members)

\* C14 witness: both invocations have finished, neither with an explicit
\* token; each asked for its own credential, created its own team (the two
\* got different teams) and reports its own member as added.
C14_Witness ==
    /\ Finished("inv1") /\ Finished("inv2")
    /\ ~Truthy(input["inv1"].token) /\ ~Truthy(input["inv2"].token)
    /\ credCalls["inv1"] # credCalls["inv2"]
    /\ Len(credCalls["inv1"]) = 1 /\ Len(credCalls["inv2"]) = 1
    /\ team["inv1"].id # team["inv2"].id
    /\ emitted["inv1"].membersAdded = <<[username |-> "user1", role |-> "member"]>>
    /\ emitted["inv2"].membersAdded = <<[username |-> "user2", role |-> "member"]>>

NoIntegrationText == "No integration for host " \o Host
NoOwnerText ==
    "No organization/owner provided, which is required for GitHub App authentication"

\* The resolver has been called and has come to its first decision.
ResolverDecided(i) == byHostCalls[i] > 0

\* C15 as stated: a present (non-empty) explicit token short-circuits first
\* and is returned with the host's API base URL, whatever the integration
\* configuration; only without an explicit token does the resolver fail for
\* a missing integration configuration, and only with a configuration and
\* an owner call the credential-issuing capability.
C15_Original ==
    \A i \in Invocations :
        ResolverDecided(i) =>
            IF Truthy(input[i].token)
            THEN /\ octokit[i].constructed
                 /\ octokit[i].auth = input[i].token
                 /\ octokit[i].baseUrl = ApiBaseUrl
                 /\ credCalls[i] = <<>>
            ELSE IF ~integrationConfigured
            THEN /\ Failed(i)
                 /\ credCalls[i] = <<>>
            ELSE Len(credCalls[i]) = 1

\* C15 amended: the resolver first fails for a missing integration
\* configuration, with or without an explicit token; then a non-empty
\* explicit token short-circuits and is returned with the host's API base
\* URL, without a call to the credential-issuing capability; then the
\* resolver fails for an empty owner; only then does it call the
\* credential-issuing capability, once, with the URL of host and owner. The
\* first conjunct states it of every invocation whose resolver has decided,
\* the second of the resolver for every argument, the empty owner (which
\* the handler never passes) included.
C15_ResolverBranchOrder ==
    /\ \A i \in Invocations :
          ResolverDecided(i) =>
              IF ~integrationConfigured
              THEN /\ Failed(i)
                   /\ thrown[i].message =
                         AuthenticationFailedPrefix(input[i].organization)
                             \o NoIntegrationText
                   /\ credCalls[i] = <<>>
                   /\ ~octokit[i].constructed
              ELSE IF Truthy(input[i].token)
              THEN /\ octokit[i].constructed
                   /\ octokit[i].auth = input[i].token
                   /\ octokit[i].baseUrl = ApiBaseUrl
                   /\ credCalls[i] = <<>>
              ELSE /\ Len(credCalls[i]) = 1
                   /\ credCalls[i][1].url = CredentialsUrl(Host, input[i].organization)
    /\ \A configured \in BOOLEAN, token \in Tokens, owner \in Organizations :
          LET r == ResolverBeforeAwait(configured, token, Host, owner)
          IN  /\ ~configured =>
                    r.kind = "throw" /\ r.error.message = NoIntegrationText
              /\ (configured /\ Truthy(token)) =>
                    r.kind = "options" /\ r.auth = token
              /\ (configured /\ ~Truthy(token) /\ ~Truthy(owner)) =>
                    r.kind = "throw" /\ r.error.message = NoOwnerText
              /\ (configured /\ ~Truthy(token) /\ Truthy(owner)) =>
                    r.kind = "getCredentials" /\ r.url = CredentialsUrl(Host, owner)

\* C15 witness: the resolver was called with an explicit token and no
\* integration configuration, and the invocation has failed.
C15_Witness ==
    /\ ResolverDecided("inv1")
    /\ ~integrationConfigured
    /\ input["inv1"].token = "user-provided-token"
    /\ Failed("inv1")
    /\ credCalls["inv1"] = <<>>

\* The texts the catch of lines 158-161 can wrap for organization org: what
\* the resolver throws and what the credentials provider rejects with.
AuthenticationCatchTexts(org) ==
    {NoIntegrationText, NoOwnerText, NoTokenText(org)}
        \cup {ErrorMessage(e) : e \in ThrownValues}

\* The invocation was rejected with an error made by that catch: a plain
\* Error whose message has the authentication-failure wrapping.
AuthenticationFailure(i) ==
    /\ Failed(i)
    /\ \E t \in AuthenticationCatchTexts(input[i].organization) :
          thrown[i].message = AuthenticationFailedPrefix(input[i].organization) \o t

\* C16: when no integration configuration exists for github.com, an
\* invocation that has reached the resolver has failed, with an error that
\* is not an authentication failure (the caller can tell the two apart),
\* without any call to the credential-issuing capability, without a client
\* and without any remote call.
C16_MissingIntegrationIsConfigurationError ==
    \A i \in Invocations :
        (~integrationConfigured /\ ResolverDecided(i)) =>
            /\ Failed(i)
            /\ ~AuthenticationFailure(i)
            /\ credCalls[i] = <<>>
            /\ ~octokit[i].constructed
            /\ createCalls[i] = <<>>
            /\ memberCalls[i] = <<>>

\* C17, state part: each stage has begun only after the stage before it has
\* ended. The resolver runs at most once and only for a validated request;
\* the create-team call is issued at most once, only with a client, and is
\* outstanding exactly while the handler awaits it; membership calls are
\* issued only after the team was created, in input order, at most one
\* outstanding at a time and exactly while the handler awaits it; outputs
\* exist only after every membership call has returned.
C17_OrderState ==
    \A i \in Invocations :
        LET outstandingCred == Len(credCalls[i]) - Len(credReplies[i])
            outstandingCreate == Len(createCalls[i]) - Len(createReplies[i])
            outstandingMember == Len(memberCalls[i]) - Len(memberReplies[i])
        IN  /\ byHostCalls[i] <= 1
            /\ byHostCalls[i] > 0 => Truthy(input[i].organization)
            /\ Len(credCalls[i]) <= byHostCalls[i]
            /\ outstandingCred = (IF pc[i] = "awaitCredentials" THEN 1 ELSE 0)
            /\ octokit[i].constructed => (byHostCalls[i] = 1 /\ outstandingCred = 0)
            /\ Len(createCalls[i]) <= 1
            /\ createCalls[i] # <<>> => octokit[i].constructed
            /\ outstandingCreate = (IF pc[i] = "awaitCreate" THEN 1 ELSE 0)
            /\ team[i].created <=> (createReplies[i] # <<>> /\ createReplies[i][1].ok)
            /\ memberCalls[i] # <<>> => team[i].created
            /\ outstandingMember = (IF pc[i] = "awaitMember" THEN 1 ELSE 0)
            /\ Len(memberCalls[i]) <= Len(MembersOf(i))
            /\ \A q \in 1..Len(memberCalls[i]) :
                  memberCalls[i][q].username = MembersOf(i)[q].username
            /\ outputOrder[i] # <<>> =>
                  /\ team[i].created
                  /\ Len(memberReplies[i]) = Len(MembersOf(i))

\* C17, step part: no step takes an invocation back to an earlier stage,
\* calls made are never withdrawn, and a step that issues a membership call
\* issues exactly one, when every earlier one has returned.
C17_OrderStep ==
    \A i \in Invocations :
        /\ StageRank(pc'[i]) >= StageRank(pc[i])
        /\ Len(credCalls'[i]) >= Len(credCalls[i])
        /\ Len(createCalls'[i]) >= Len(createCalls[i])
        /\ Len(memberCalls'[i]) >= Len(memberCalls[i])
        /\ Len(memberCalls'[i]) > Len(memberCalls[i]) =>
              /\ Len(memberCalls'[i]) = Len(memberCalls[i]) + 1
              /\ Len(memberReplies[i]) = Len(memberCalls[i])
              /\ SubSeq(memberCalls'[i], 1, Len(memberCalls[i])) = memberCalls[i]

\* C17: within one invocation the stages occur in the order validation,
\* credential resolution, create-team call, membership calls in input order
\* with each issued only after the previous one has returned, outputs; no
\* two remote calls overlap and no earlier stage is re-entered.
C17_StagesInOrder == [](C17_OrderState) /\ [][C17_OrderStep]_vars

\* C17 witness: an invocation without explicit token went through every
\* stage: one credential call, one create-team call, two membership calls
\* (the first of them rejected), then the outputs.
C17_Witness ==
    /\ Finished("inv1")
    /\ Len(credCalls["inv1"]) = 1
    /\ Len(createCalls["inv1"]) = 1
    /\ Len(memberCalls["inv1"]) = 2
    /\ ~memberReplies["inv1"][1].ok
    /\ memberReplies["inv1"][2].ok
    /\ AllOutputsEmitted("inv1")

\* The invocation has returned or thrown.
Ended(i) == Finished(i) \/ Failed(i)

\* C18: no remote operation is retried. An invocation issues at most one
\* create-team call, and exactly one by the time it ends if validation and
\* credential resolution succeeded (it has a client); a rejected create-team
\* call ends the invocation with that one call. After a successful creation
\* the q-th membership call is for the q-th input member, there are never
\* more calls than members nor more replies than calls, and when the member
\* stage is over there is exactly one call per input member, whether the
\* calls resolved or rejected.
C18_NoRetries ==
    \A i \in Invocations :
        /\ Len(createCalls[i]) <= 1
        /\ Len(createReplies[i]) <= Len(createCalls[i])
        /\ (Ended(i) /\ octokit[i].constructed) => Len(createCalls[i]) = 1
        /\ (Ended(i) /\ ~octokit[i].constructed) => createCalls[i] = <<>>
        /\ CreateRejected(i) =>
              /\ Failed(i)
              /\ Len(createCalls[i]) = 1
              /\ memberCalls[i] = <<>>
        /\ Len(memberCalls[i]) <= Len(MembersOf(i))
        /\ Len(memberReplies[i]) <= Len(memberCalls[i])
        /\ \A q \in 1..Len(memberCalls[i]) :
              memberCalls[i][q] = MembershipRequest(input[i], team[i], MembersOf(i)[q])
        /\ (team[i].created /\ pc[i] \in {"output", "done"}) =>
              /\ Len(memberCalls[i]) = Len(MembersOf(i))
              /\ Len(memberReplies[i]) = Len(MembersOf(i))

\* C18 witness: both membership calls of an invocation were rejected and
\* the invocation ended with one create-team call and two membership calls.
C18_Witness ==
    /\ Finished("inv1")
    /\ Len(MembersOf("inv1")) = 2
    /\ Len(createCalls["inv1"]) = 1
    /\ Len(memberCalls["inv1"]) = 2
    /\ ~memberReplies["inv1"][1].ok
    /\ ~memberReplies["inv1"][2].ok

\* The texts the outer catch (lines 232-235) can wrap: what a remote call
\* rejects with and what a log call throws.
OuterCatchTexts == {ErrorMessage(e) : e \in ThrownValues \cup LoggerThrownValues}

\* The invocation was rejected with the error the outer catch makes.
TeamCreationFailure(i) ==
    /\ Failed(i)
    /\ \E t \in OuterCatchTexts : thrown[i].message = CreationFailedPrefix \o t

\* C19: an error with the "GitHub team creation failed" wrapping is raised
\* only when the create-team call itself was rejected: whenever an
\* invocation has thrown it, the create-team call was rejected, no team was
\* created and no membership call was made.
C19_CreationErrorOnlyFromCreate ==
    \A i \in Invocations :
        TeamCreationFailure(i) =>
            /\ CreateRejected(i)
            /\ ~team[i].created
            /\ memberCalls[i] = <<>>

\* C20 as stated: for every failed membership call the error of the
\* member's membersFailed entry is the message of the failure when that is
\* present and non-empty and "Unknown error" otherwise, for every kind of
\* thrown value.
C20_Original ==
    \A i \in Invocations :
        LET badAt == PositionsWhere(i, Processed(i), FALSE)
        IN  /\ Len(memberResults[i].failed) = Len(badAt)
            /\ \A r \in 1..Len(badAt) :
                  LET e == memberReplies[i][badAt[r]].error
                  IN  memberResults[i].failed[r].error =
                         (IF Truthy(e.message) THEN e.message ELSE "Unknown error")

\* C20 amended: for every failed membership call the error of the member's
\* membersFailed entry is the failure's message when the thrown value is an
\* Error, an empty message included, and "Unknown error" when it is any
\* other value, whatever text that value carries; the reported list has the
\* same entries.
C20_FailedEntryError ==
    \A i \in Invocations :
        LET badAt == PositionsWhere(i, Processed(i), FALSE)
        IN  /\ Len(memberResults[i].failed) = Len(badAt)
            /\ \A r \in 1..Len(badAt) :
                  LET e == memberReplies[i][badAt[r]].error
                  IN  memberResults[i].failed[r].error =
                         (IF e.isError THEN e.message ELSE "Unknown error")
            /\ Finished(i) => emitted[i].membersFailed = memberResults[i].failed

\* C20 witness: one membership call was rejected with an Error whose message
\* is empty and the next with a value that is not an Error, and both
\* entries are reported.
C20_Witness ==
    /\ Finished("inv1")
    /\ Len(memberReplies["inv1"]) = 2
    /\ ~memberReplies["inv1"][1].ok
    /\ memberReplies["inv1"][1].error = ErrorOf("")
    /\ ~memberReplies["inv1"][2].ok
    /\ memberReplies["inv1"][2].error = NonError("rejected")
    /\ emitted["inv1"].membersFailed[1].error = ""
    /\ emitted["inv1"].membersFailed[2].error = "Unknown error"

\* The credential of the client of invocation i is the explicit token, or
\* the token the one getCredentials call resolved to; never the static
\* token of the integration configuration.
CredentialIsExplicitOrIssued(i) ==
    octokit[i].constructed =>
        /\ Truthy(octokit[i].auth)
        /\ octokit[i].auth # IntegrationToken
        /\ IF Truthy(input[i].token)
           THEN /\ octokit[i].auth = input[i].token
                /\ credCalls[i] = <<>>
           ELSE /\ Len(credCalls[i]) = 1
                /\ Len(credReplies[i]) = 1
                /\ credReplies[i][1].ok
                /\ octokit[i].auth = credReplies[i][1].token

\* C21 as stated: the credential of the client is the explicit token or
\* the token issued for the URL https://<host>/<organization>, the
\* organization as given; the credential-issuing capability is invoked at
\* most once.
C21_Original ==
    \A i \in Invocations :
        /\ CredentialIsExplicitOrIssued(i)
        /\ Len(credCalls[i]) <= 1
        /\ \A q \in 1..Len(credCalls[i]) :
              credCalls[i][q].url = "https://" \o Host \o "/" \o input[i].organization

\* C21 amended: the credential of the client is always either the caller's
\* non-empty explicit token or the token the credential-issuing capability
\* returned for the URL https://<host>/<organization> with the organization
\* percent-encoded as a URI component; the static token of the integration
\* configuration is never used, and the capability is invoked at most once
\* per invocation, and not at all with an explicit token.
C21_CredentialSource ==
    \A i \in Invocations :
        /\ CredentialIsExplicitOrIssued(i)
        /\ Len(credCalls[i]) <= 1
        /\ Len(credReplies[i]) <= Len(credCalls[i])
        /\ \A q \in 1..Len(credCalls[i]) :
              /\ credCalls[i][q].url =
                    "https://" \o Host \o "/" \o EncodeURIComponent(input[i].organization)
              /\ ~Truthy(input[i].token)

\* C21 witness: for the organization "r&d" without explicit token the
\* capability was asked once, for the encoded URL, and the client carries
\* the token it returned.
C21_Witness ==
    /\ input["inv1"].organization = "r&d"
    /\ ~Truthy(input["inv1"].token)
    /\ Len(credCalls["inv1"]) = 1
    /\ credCalls["inv1"][1].url = "https://github.com/r%26d"
    /\ octokit["inv1"].constructed
    /\ octokit["inv1"].auth = ProviderToken

\* The two final states of an invocation: returned with the five outputs
\* and no error, or rejected with an error and no output.
Succeeded(i) ==
    /\ Finished(i)
    /\ AllOutputsEmitted(i)
    /\ ~thrown[i].raised
Rejected(i) ==
    /\ Failed(i)
    /\ thrown[i].raised
    /\ outputOrder[i] = <<>>

\* C22, state part: an invocation that has ended is in exactly one of the
\* two final states, never with an error and outputs, nor with neither; an
\* invocation that has not ended has neither.
C22_OneOfTwoOutcomes ==
    \A i \in Invocations :
        /\ Ended(i) => (Succeeded(i) \/ Rejected(i))
        /\ ~(Succeeded(i) /\ Rejected(i))
        /\ ~Ended(i) => (outputOrder[i] = <<>> /\ ~thrown[i].raised)

\* C22, progress part: every invocation that was started ends.
C22_Terminates == <>(\A i \in Invocations : pc[i] = "unused" \/ Ended(i))

\* C22: for every members list, when every external call settles, the
\* invocation eventually ends, in exactly one of two final states: the
\* five outputs emitted and no error, or an error thrown and no output.
C22_EndsInOneOfTwoStates == [](C22_OneOfTwoOutcomes) /\ C22_Terminates

====
